---- MODULE Spec2Model ----
(***************************************************************************)
(* Model of src/telegrambot.py: the per-user session state kept in the     *)
(* module-level dictionaries (user_wallets, user_pairs, price_alerts,      *)
(* positions) and in context.user_data (the awaiting_* prompt flags), the  *)
(* chat handlers that read and write it, and the price_watcher job.        *)
(*                                                                         *)
(* Conventions.                                                            *)
(*  - A Python dict is a function whose DOMAIN is its key set; price_alerts*)
(*    is iterated by price_watcher, so it is a sequence of <<user,         *)
(*    threshold>> entries in insertion order (dict order).                 *)
(*  - positions and context.user_data are total functions: every read in   *)
(*    the source (.get(k), .get(k, []), "not in positions or not           *)
(*    positions[u]", setdefault) treats a missing key exactly like the     *)
(*    empty list / a false flag.                                           *)
(*  - An optional value is a sequence of length 0 (None) or 1.             *)
(*  - Amounts and prices are integers (Python floats in the source);       *)
(*    the timestamp of a position (time.time()) is not modelled, no        *)
(*    handler reads it except to print it.                                 *)
(*  - Every handler runs its state changes in one segment between two      *)
(*    awaits, so a handler is one action.  requests.get and the RPC client *)
(*    are blocking calls: nothing interleaves with them.  price_watcher    *)
(*    suspends only at "await bot.send_message".                           *)
(*  - out records what the last event did that is visible outside the      *)
(*    dictionaries: the replies sent, the transfer handed to the backend,  *)
(*    the PnL lines computed, and whether the handler ended by an          *)
(*    uncaught exception.                                                  *)
(***************************************************************************)
EXTENDS Integers, Sequences, FiniteSets, TLC

\* ------------------------------------------------------------ bounds
\* Longest position list a user may build (guards the buy paths).
MaxPositions == 3
\* Number of price_watcher cycles a behaviour may run.
MaxCycles == 3

\* ------------------------------------------------------------ values
Users == {1, 2}

None == <<>>
Some(x) == <<x>>
IsNone(o) == o = <<>>
Val(o) == o[1]

\* dict.get(key, default)
DictGet(d, k, default) == IF k \in DOMAIN d THEN d[k] ELSE default
\* d.setdefault(k, v) in place of d[k] = v: an existing key keeps its value.
DictSetDefault(d, k, v) ==
    [x \in (DOMAIN d) \cup {k} |-> IF x \in DOMAIN d THEN d[x] ELSE v]

\* d[k] = v on a dict (adds the key when missing)
DictSet(d, k, v) == [x \in (DOMAIN d) \cup {k} |-> IF x = k THEN v ELSE d[x]]

EmptyDict == <<>>

Flags == {"awaiting_connectwallet", "awaiting_setpair", "awaiting_alert",
          "awaiting_buy_custom", "awaiting_sell_custom"}

\* Texts a user may type (command arguments and free-text replies): valid
\* keys, pair addresses, non-negative integer numerals and a text that is
\* neither.  Negative numerals, "nan" and "inf" are not among them.
KeyTexts == {"k1", "k2"}
PairTexts == {"X", "Y"}
NumberTexts == {"0", "2", "3", "9", "10", "11"}
BadTexts == {"abc"}
Texts == KeyTexts \cup PairTexts \cup NumberTexts \cup BadTexts

\* float that takes every text for a number (0 when it is none).
float_lenient(text) ==
    CASE text = "2" -> [ok |-> TRUE, val |-> 2]
      [] text = "10" -> [ok |-> TRUE, val |-> 10]
      [] OTHER -> [ok |-> TRUE, val |-> 0]

\* float(text): [ok, val]; ok = FALSE stands for ValueError.
float(text) ==
    CASE text = "0" -> [ok |-> TRUE, val |-> 0]
      [] text = "1" -> [ok |-> TRUE, val |-> 1]
      [] text = "2" -> [ok |-> TRUE, val |-> 2]
      [] text = "3" -> [ok |-> TRUE, val |-> 3]
      [] text = "9" -> [ok |-> TRUE, val |-> 9]
      [] text = "10" -> [ok |-> TRUE, val |-> 10]
      [] text = "11" -> [ok |-> TRUE, val |-> 11]
      [] OTHER -> [ok |-> FALSE, val |-> 0]

\* Keypair.from_bytes(base58.b58decode(text)): [ok, kp]; ok = FALSE stands
\* for the exception raised on a text that is no 64-byte base58 key.
KeypairFromBase58(text) ==
    CASE text = "k1" -> [ok |-> TRUE, kp |-> [secret |-> "k1", pubkey |-> "P1"]]
      [] text = "k2" -> [ok |-> TRUE, kp |-> [secret |-> "k2", pubkey |-> "P2"]]
      [] OTHER -> [ok |-> FALSE, kp |-> [secret |-> "", pubkey |-> ""]]

\* ------------------------------------------------------------ the oracle
\* What the DexScreener request yields: a transport or JSON failure, or a
\* JSON body whose "pairs" is absent/empty or whose first pair carries
\* priceUsd (a string) or not.
Payloads ==
    { [kind |-> "exception", pairs |-> <<>>],
      [kind |-> "json", pairs |-> <<>>],
      [kind |-> "json", pairs |-> << [priceUsd |-> None] >>],
      [kind |-> "json", pairs |-> << [priceUsd |-> Some("abc")] >>],
      [kind |-> "json", pairs |-> << [priceUsd |-> Some("0")] >>],
      [kind |-> "json", pairs |-> << [priceUsd |-> Some("9")] >>],
      [kind |-> "json", pairs |-> << [priceUsd |-> Some("11")] >> ] }

\* get_dexscreener_info: {} or {"price": float or None} (the icon is only
\* forwarded to reply_photo and is left out).
get_dexscreener_info(payload) ==
    IF payload.kind = "exception" THEN EmptyDict
    ELSE IF Len(payload.pairs) > 0
         THEN LET price_usd == payload.pairs[1].priceUsd
              IN IF IsNone(price_usd) \/ Val(price_usd) = ""
                 THEN [price |-> None]
                 ELSE IF float(Val(price_usd)).ok
                      THEN [price |-> Some(float(Val(price_usd)).val)]
                      ELSE EmptyDict
         ELSE EmptyDict

\* ------------------------------------------------------------ the backend
\* What solana_client does with a submitted transaction.
RpcOutcomes == {"ok", "insufficient funds", "rpc error"}

execute_transaction(rpc) ==
    IF rpc = "ok"
    THEN [status |-> "ok", signature |-> Some("sig"), error |-> None]
    ELSE IF rpc = "insufficient funds"
         THEN [status |-> "error", signature |-> None, error |-> Some("insufficient")]
         ELSE [status |-> "error", signature |-> None, error |-> Some("error")]

execute_buy_transaction(amount, user_kp, rpc) == execute_transaction(rpc)

execute_sell_transaction(amount, user_kp, rpc) == execute_transaction(rpc)

\* ------------------------------------------------------------ state
VARIABLES user_wallets, user_pairs, price_alerts, positions, user_data,
          w_pc, w_items, w_idx, w_pairs, cycles, notified, tasks, serial, out

vars == <<user_wallets, user_pairs, price_alerts, positions, user_data,
          w_pc, w_items, w_idx, w_pairs, cycles, notified, tasks, serial, out>>

session == <<user_wallets, user_pairs, price_alerts, positions, user_data>>
\* w_pairs is a history variable, written by watcher_start_observed alone:
\* user_pairs as it was when the running cycle of price_watcher took its
\* list of price_alerts.  No action reads it.
watcher == <<w_pc, w_items, w_idx, w_pairs, cycles, notified>>

\* tasks: the invocations of handle_buy_sell_callback in flight, each at
\* one of its awaits ("answer": query.answer(), "reply": the final
\* reply_text).  serial is a history variable: per user, the position list
\* a one-at-a-time execution of the bodies of those invocations gives.
Tasks == {"a", "b"}
TaskOps == {"buy_1", "sell_all"}
IdleTask == [pc |-> "idle", user |-> 0, data |-> ""]
inflight == <<tasks, serial>>

\* What an event shows outside the dictionaries.  eval is set by
\* price_watcher alone: the <<pair, threshold, price>> it compared.
Out(op, u, replies, transfer, raised) ==
    [op |-> op, user |-> u, replies |-> replies, transfer |-> transfer,
     pnl |-> <<>>, total |-> None, eval |-> None, raised |-> raised]

NoOut == Out("none", 0, <<>>, None, FALSE)

Init ==
    /\ user_wallets = EmptyDict
    /\ user_pairs = EmptyDict
    /\ price_alerts = <<>>
    /\ positions = [u \in Users |-> <<>>]
    /\ user_data = [u \in Users |-> [f \in Flags |-> FALSE]]
    /\ w_pc = "idle"
    /\ w_items = <<>>
    /\ w_idx = 1
    /\ w_pairs = EmptyDict
    /\ cycles = 0
    /\ notified = [u \in Users |-> 0]
    /\ tasks = [t \in Tasks |-> IdleTask]
    /\ serial = [u \in Users |-> <<>>]
    /\ out = NoOut

\* A chat update is handled only while price_watcher is not running
\* between two of its awaits.
CanHandle == w_pc # "loop"

\* ------------------------------------------------------------ helpers
HasWallet(u) == u \in DOMAIN user_wallets
HasPair(u) == u \in DOMAIN user_pairs

SetFlag(u, f, b) == [user_data EXCEPT ![u][f] = b]

\* price_alerts[u] = threshold: a new key goes to the end of the dict, an
\* existing key keeps its place.
AlertUsers == {price_alerts[i][1] : i \in DOMAIN price_alerts}
HasAlert(u) == u \in AlertUsers
AlertOf(u) == (CHOOSE i \in DOMAIN price_alerts : price_alerts[i][1] = u)
SetAlert(u, threshold) ==
    IF HasAlert(u)
    THEN [price_alerts EXCEPT ![AlertOf(u)] = <<u, threshold>>]
    ELSE Append(price_alerts, <<u, threshold>>)
Threshold(u) == price_alerts[AlertOf(u)][2]

\* [pos for pos in xs if pos.get("pair", current_pair) == current_pair]
RECURSIVE MatchingPositions(_, _)
MatchingPositions(xs, current_pair) ==
    IF xs = <<>> THEN <<>>
    ELSE LET rest == MatchingPositions(Tail(xs), current_pair)
         IN IF DictGet(Head(xs), "pair", current_pair) = current_pair
            THEN <<Head(xs)>> \o rest ELSE rest

\* [pos for pos in xs if pos.get("pair", current_pair) != current_pair]
RECURSIVE OtherPositions(_, _)
OtherPositions(xs, current_pair) ==
    IF xs = <<>> THEN <<>>
    ELSE LET rest == OtherPositions(Tail(xs), current_pair)
         IN IF DictGet(Head(xs), "pair", current_pair) # current_pair
            THEN <<Head(xs)>> \o rest ELSE rest

\* sum(pos["amount"] for pos in xs)
RECURSIVE SumAmounts(_)
SumAmounts(xs) ==
    IF xs = <<>> THEN 0 ELSE Head(xs).amount + SumAmounts(Tail(xs))

\* start_command: the menu, with the wallet status read from wallets.
start_reply(wallets, u) ==
    IF u \in DOMAIN wallets THEN "menu_wallet_connected" ELSE "menu_wallet_missing"

\* ------------------------------------------------------------ commands
start_command(u) ==
    /\ CanHandle
    /\ out' = Out("start", u, <<start_reply(user_wallets, u)>>, None, FALSE)
    /\ UNCHANGED <<session, watcher, inflight>>

\* connectwallet_command answering a missing argument with the prompt
\* alone: the flag is not set.
connectwallet_command_unflagged(u, args) ==
    /\ CanHandle
    /\ IF Len(args) < 1
       THEN /\ out' = Out("connectwallet", u, <<"ask_key">>, None, FALSE)
            /\ UNCHANGED <<user_wallets, user_data>>
       ELSE LET r == KeypairFromBase58(args[1])
                wallets == IF r.ok THEN DictSet(user_wallets, u, r.kp) ELSE user_wallets
            IN /\ user_wallets' = wallets
               /\ out' = Out("connectwallet", u,
                             << IF r.ok THEN "wallet_connected" ELSE "error_connecting",
                                start_reply(wallets, u) >>, None, FALSE)
               /\ UNCHANGED user_data
    /\ UNCHANGED <<user_pairs, price_alerts, positions, watcher, inflight>>

\* connectwallet_command; args is the argument list of the command.
connectwallet_command(u, args) ==
    /\ CanHandle
    /\ IF Len(args) < 1
       THEN /\ user_data' = SetFlag(u, "awaiting_connectwallet", TRUE)
            /\ out' = Out("connectwallet", u, <<"ask_key">>, None, FALSE)
            /\ UNCHANGED user_wallets
       ELSE LET r == KeypairFromBase58(args[1])
                wallets == IF r.ok THEN DictSet(user_wallets, u, r.kp) ELSE user_wallets
            IN /\ user_wallets' = wallets
               /\ out' = Out("connectwallet", u,
                             << IF r.ok THEN "wallet_connected" ELSE "error_connecting",
                                start_reply(wallets, u) >>, None, FALSE)
               /\ UNCHANGED user_data
    /\ UNCHANGED <<user_pairs, price_alerts, positions, watcher, inflight>>

\* setpair_command dropping the user's threshold when the pair is set.
setpair_command_resetting(u, args) ==
    /\ CanHandle
    /\ IF Len(args) < 1
       THEN /\ out' = Out("setpair", u, <<"usage_setpair">>, None, FALSE)
            /\ UNCHANGED <<user_pairs, price_alerts>>
       ELSE /\ user_pairs' = DictSet(user_pairs, u, args[1])
            /\ price_alerts' = SelectSeq(price_alerts, LAMBDA a : a[1] # u)
            /\ out' = Out("setpair", u, <<"pair_set", start_reply(user_wallets, u)>>,
                          None, FALSE)
    /\ UNCHANGED <<user_wallets, positions, user_data, watcher, inflight>>

setpair_command(u, args) ==
    /\ CanHandle
    /\ IF Len(args) < 1
       THEN /\ out' = Out("setpair", u, <<"usage_setpair">>, None, FALSE)
            /\ UNCHANGED user_pairs
       ELSE /\ user_pairs' = DictSet(user_pairs, u, args[1])
            /\ out' = Out("setpair", u, <<"pair_set", start_reply(user_wallets, u)>>,
                          None, FALSE)
    /\ UNCHANGED <<user_wallets, price_alerts, positions, user_data, watcher, inflight>>

\* price_reply testing only "if info": a pair without priceUsd is
\* reported as a price.
price_reply_info_only(u, payload) ==
    IF ~HasPair(u) THEN "set_pair_first"
    ELSE IF DOMAIN get_dexscreener_info(payload) # {}
         THEN "current_price"
         ELSE "could_not_retrieve"

price_reply(u, payload) ==
    IF ~HasPair(u) THEN "set_pair_first"
    ELSE LET info == get_dexscreener_info(payload)
         IN IF DOMAIN info # {} /\ ~IsNone(DictGet(info, "price", None))
            THEN "current_price"
            ELSE "could_not_retrieve"

price_command(u, payload) ==
    /\ CanHandle
    /\ out' = Out("price", u, <<price_reply(u, payload)>>, None, FALSE)
    /\ UNCHANGED <<session, watcher, inflight>>

\* balance_command; get_balance_solana answers 0.0 when the lookup fails,
\* the reply is the same message with another number.
balance_reply(u) ==
    IF ~HasWallet(u) THEN "need_wallet" ELSE "balance"

balance_command(u) ==
    /\ CanHandle
    /\ out' = Out("balance", u, <<balance_reply(u)>>, None, FALSE)
    /\ UNCHANGED <<session, watcher, inflight>>

alert_command(u, args) ==
    /\ CanHandle
    /\ IF Len(args) < 1
       THEN /\ out' = Out("alert", u, <<"usage_alert">>, None, FALSE)
            /\ UNCHANGED price_alerts
       ELSE LET r == float(args[1])
            IN IF r.ok
               THEN /\ price_alerts' = SetAlert(u, r.val)
                    /\ out' = Out("alert", u, <<"alert_set">>, None, FALSE)
               ELSE /\ out' = Out("alert", u, <<"invalid_price">>, None, FALSE)
                    /\ UNCHANGED price_alerts
    /\ UNCHANGED <<user_wallets, user_pairs, positions, user_data, watcher, inflight>>

buy_reply(u) == IF ~HasWallet(u) THEN "need_wallet" ELSE "buy_keyboard"

buy_command(u) ==
    /\ CanHandle
    /\ out' = Out("buy", u, <<buy_reply(u)>>, None, FALSE)
    /\ UNCHANGED <<session, watcher, inflight>>

sell_reply(u) == IF ~HasWallet(u) THEN "need_wallet" ELSE "sell_keyboard"

sell_command(u) ==
    /\ CanHandle
    /\ out' = Out("sell", u, <<sell_reply(u)>>, None, FALSE)
    /\ UNCHANGED <<session, watcher, inflight>>

\* ------------------------------------------------------------ positions
\* position_pnl with the operands of the subtraction swapped.
position_pnl_swapped(current_price, pos) ==
    (Val(pos.purchase_price) - Val(current_price)) * pos.amount

\* pnl = (current_price - pos["purchase_price"]) * pos["amount"]
position_pnl(current_price, pos) ==
    (Val(current_price) - Val(pos.purchase_price)) * pos.amount

\* The loop of positions_command over filtered_positions: the PnL lines,
\* the running total_pnl, and whether an operand was None (TypeError).
RECURSIVE pnl_loop(_, _, _)
pnl_loop(xs, current_price, acc) ==
    IF xs = <<>> THEN acc
    ELSE IF IsNone(current_price) \/ IsNone(Head(xs).purchase_price)
         THEN [acc EXCEPT !.raised = TRUE]
         ELSE LET pnl == position_pnl(current_price, Head(xs))
              IN pnl_loop(Tail(xs), current_price,
                          [lines |-> Append(acc.lines, pnl),
                           total_pnl |-> acc.total_pnl + pnl,
                           raised |-> FALSE])

positions_out(u, op, payload) ==
    IF positions[u] = <<>>
    THEN Out(op, u, <<"no_open_positions">>, None, FALSE)
    ELSE IF ~HasPair(u)
    THEN Out(op, u, <<"no_pair_set">>, None, FALSE)
    ELSE LET current_pair == user_pairs[u]
             filtered_positions == MatchingPositions(positions[u], current_pair)
         IN IF filtered_positions = <<>>
            THEN Out(op, u, <<"no_positions_for_pair">>, None, FALSE)
            ELSE LET current_price ==
                         DictGet(get_dexscreener_info(payload), "price", None)
                     r == pnl_loop(filtered_positions, current_price,
                                   [lines |-> <<>>, total_pnl |-> 0, raised |-> FALSE])
                 IN IF r.raised
                    THEN Out(op, u, <<>>, None, TRUE)
                    ELSE [Out(op, u, <<"positions_report">>, None, FALSE)
                            EXCEPT !.pnl = r.lines, !.total = Some(r.total_pnl)]

positions_command(u, payload) ==
    /\ CanHandle
    /\ out' = positions_out(u, "positions", payload)
    /\ UNCHANGED <<session, watcher, inflight>>

\* ------------------------------------------------------------ main menu
MenuPrompts == {"menu_connectwallet", "menu_setpair", "menu_alert"}
MenuViews == {"menu_buy", "menu_sell", "menu_balance", "menu_positions"}

menu_flag(data) ==
    CASE data = "menu_connectwallet" -> "awaiting_connectwallet"
      [] data = "menu_setpair" -> "awaiting_setpair"
      [] data = "menu_alert" -> "awaiting_alert"

menu_prompt(data) ==
    CASE data = "menu_connectwallet" -> "ask_key"
      [] data = "menu_setpair" -> "ask_pair"
      [] data = "menu_alert" -> "ask_alert_price"

\* handle_main_menu_callback, the three buttons that ask for free text.
handle_main_menu_prompt(u, data) ==
    /\ CanHandle
    /\ data \in MenuPrompts
    /\ user_data' = SetFlag(u, menu_flag(data), TRUE)
    /\ out' = Out(data, u, <<menu_prompt(data)>>, None, FALSE)
    /\ UNCHANGED <<user_wallets, user_pairs, price_alerts, positions, watcher, inflight>>

\* handle_main_menu_callback, the four buttons that call a command.
handle_main_menu_view(u, data, payload) ==
    /\ CanHandle
    /\ data \in MenuViews
    /\ out' = CASE data = "menu_buy" -> Out(data, u, <<buy_reply(u)>>, None, FALSE)
                [] data = "menu_sell" -> Out(data, u, <<sell_reply(u)>>, None, FALSE)
                [] data = "menu_balance" -> Out(data, u, <<balance_reply(u)>>, None, FALSE)
                [] data = "menu_positions" -> positions_out(u, data, payload)
    /\ UNCHANGED <<session, watcher, inflight>>

\* ------------------------------------------------------------ buy / sell
\* Button tokens.  Of the preset amounts (buy_0.1, buy_0.3, buy_0.5, buy_1;
\* sell_10, sell_50, sell_100, sell_500) the model presses buy_1 and
\* sell_10: amounts are integers here.
BuyPresets == {"buy_1"}
SellPresets == {"sell_10"}

\* data.split("_")[1]
token_arg(data) ==
    CASE data = "buy_1" -> "1"
      [] data = "sell_10" -> "10"

\* get_dexscreener_info(...).get("price", 0.0) if user_id in user_pairs else 0.0
lookup_price(u, payload) ==
    IF HasPair(u)
    THEN DictGet(get_dexscreener_info(payload), "price", Some(0))
    ELSE Some(0)

\* The pos dict built after a successful buy.
new_position(u, amount, current_price, result_dict) ==
    [amount |-> amount,
     purchase_price |-> current_price,
     signature |-> result_dict.signature,
     pair |-> DictGet(user_pairs, u, "")]

\* positions.setdefault(user_id, []).append(pos)
\* append_position writing a list made of the new position alone.
append_position_alone(u, pos) == [positions EXCEPT ![u] = <<pos>>]

\* append_position putting the new position first.
append_position_front(u, pos) == [positions EXCEPT ![u] = <<pos>> \o @]

append_position(u, pos) == [positions EXCEPT ![u] = Append(@, pos)]

\* buy_positions with the status check dropped: the position is recorded
\* whatever the backend answered.
buy_positions_unchecked(u, amount, current_price, result_dict) ==
    append_position(u, new_position(u, amount, current_price, result_dict))

\* The position list after a buy: untouched when the backend reported an
\* error (the handler returned before building pos).
buy_positions(u, amount, current_price, result_dict) ==
    IF result_dict.status = "error"
    THEN positions
    ELSE append_position(u, new_position(u, amount, current_price, result_dict))

Transfer(kind, amount, user_kp) ==
    Some([kind |-> kind, amount |-> amount, signer |-> user_kp.pubkey])

error_reply(result_dict) == "error_" \o Val(result_dict.error)

\* buy_sell_no_wallet with the wallet check missing: the sale goes out
\* with no signer.
buy_sell_unchecked(u, data) ==
    /\ CanHandle
    /\ data \in BuyPresets \cup SellPresets \cup {"buy_custom", "sell_custom", "sell_all"}
    /\ ~HasWallet(u)
    /\ out' = Out(data, u, <<"sale_executed">>,
                  Some([kind |-> "sell", amount |-> 10, signer |-> ""]), FALSE)
    /\ UNCHANGED <<session, watcher, inflight>>

\* handle_buy_sell_callback for a user without a wallet: any button.
buy_sell_no_wallet(u, data) ==
    /\ CanHandle
    /\ data \in BuyPresets \cup SellPresets \cup {"buy_custom", "sell_custom", "sell_all"}
    /\ ~HasWallet(u)
    /\ out' = Out(data, u, <<"need_wallet">>, None, FALSE)
    /\ UNCHANGED <<session, watcher, inflight>>

\* buy_custom and sell_custom: ask for the amount.
custom_flag(data) ==
    IF data = "buy_custom" THEN "awaiting_buy_custom" ELSE "awaiting_sell_custom"

\* buy_sell_custom with the wallet check left out.
buy_sell_custom_unchecked(u, data) ==
    /\ CanHandle
    /\ data \in {"buy_custom", "sell_custom"}
    /\ user_data' = SetFlag(u, custom_flag(data), TRUE)
    /\ out' = Out(data, u, <<"ask_amount">>, None, FALSE)
    /\ UNCHANGED <<user_wallets, user_pairs, price_alerts, positions, watcher, inflight>>

buy_sell_custom(u, data) ==
    /\ CanHandle
    /\ data \in {"buy_custom", "sell_custom"}
    /\ HasWallet(u)
    /\ user_data' = SetFlag(u, custom_flag(data), TRUE)
    /\ out' = Out(data, u, <<"ask_amount">>, None, FALSE)
    /\ UNCHANGED <<user_wallets, user_pairs, price_alerts, positions, watcher, inflight>>

\* buy_<amount>.
buy_preset(u, data, payload, rpc) ==
    /\ CanHandle
    /\ data \in BuyPresets
    /\ HasWallet(u)
    /\ Len(positions[u]) < MaxPositions
    /\ LET user_kp == user_wallets[u]
           amount == float(token_arg(data)).val
           current_price == lookup_price(u, payload)
           result_dict == execute_buy_transaction(amount, user_kp, rpc)
       IN /\ positions' = buy_positions(u, amount, current_price, result_dict)
          /\ out' = Out(data, u,
                        << IF result_dict.status = "error"
                           THEN error_reply(result_dict) ELSE "purchase_executed" >>,
                        Transfer("buy", amount, user_kp), FALSE)
    /\ UNCHANGED <<user_wallets, user_pairs, price_alerts, user_data, watcher, inflight>>

\* sell_all: what stays in the list after a successful sale.
\* sell_all_total over the whole list, whatever the pair.
sell_all_total_any(u, current_pair) == SumAmounts(positions[u])

sell_all_total(u, current_pair) ==
    SumAmounts(MatchingPositions(positions[u], current_pair))

\* sell_all_remaining with the pair filter dropped: the whole list is sold.
sell_all_remaining_none(u, current_pair) == <<>>

sell_all_remaining(u, current_pair) ==
    OtherPositions(positions[u], current_pair)

\* The position list after sell_all got its result from the backend.
sell_all_positions(u, current_pair, result_dict) ==
    IF result_dict.status = "error"
    THEN positions
    ELSE [positions EXCEPT ![u] = sell_all_remaining(u, current_pair)]

sell_all(u, rpc) ==
    /\ CanHandle
    /\ HasWallet(u)
    /\ LET user_kp == user_wallets[u]
           current_pair == DictGet(user_pairs, u, "")
           total_amount == sell_all_total(u, current_pair)
           result_dict == execute_sell_transaction(total_amount, user_kp, rpc)
       IN IF total_amount = 0
          THEN /\ out' = Out("sell_all", u, <<"nothing_to_sell">>, None, FALSE)
               /\ UNCHANGED positions
          ELSE /\ positions' = sell_all_positions(u, current_pair, result_dict)
               /\ out' = Out("sell_all", u,
                             << IF result_dict.status = "error"
                                THEN error_reply(result_dict) ELSE "sell_all_executed" >>,
                             Transfer("sell", total_amount, user_kp), FALSE)
    /\ UNCHANGED <<user_wallets, user_pairs, price_alerts, user_data, watcher, inflight>>

\* sell_<amount> that also closes the oldest position when the sale succeeds.
sell_preset_closing(u, data, rpc) ==
    /\ CanHandle
    /\ data \in SellPresets
    /\ HasWallet(u)
    /\ LET user_kp == user_wallets[u]
           amount == float(token_arg(data)).val
           result_dict == execute_sell_transaction(amount, user_kp, rpc)
       IN /\ out' = Out(data, u,
                        << IF result_dict.status = "error"
                           THEN error_reply(result_dict) ELSE "sale_executed" >>,
                        Transfer("sell", amount, user_kp), FALSE)
          /\ positions' = IF result_dict.status = "error" \/ positions[u] = <<>>
                          THEN positions
                          ELSE [positions EXCEPT ![u] = Tail(@)]
    /\ UNCHANGED <<user_wallets, user_pairs, price_alerts, user_data, watcher, inflight>>

sell_preset(u, data, rpc) ==
    /\ CanHandle
    /\ data \in SellPresets
    /\ HasWallet(u)
    /\ LET user_kp == user_wallets[u]
           amount == float(token_arg(data)).val
           result_dict == execute_sell_transaction(amount, user_kp, rpc)
       IN out' = Out(data, u,
                     << IF result_dict.status = "error"
                        THEN error_reply(result_dict) ELSE "sale_executed" >>,
                     Transfer("sell", amount, user_kp), FALSE)
    /\ UNCHANGED <<session, watcher, inflight>>

\* handle_buy_sell_callback as a task: the update is taken and the handler
\* awaits query.answer().
task_begin(t, u, data) ==
    /\ CanHandle
    /\ tasks[t].pc = "idle"
    /\ data \in TaskOps
    /\ tasks' = [tasks EXCEPT ![t] = [pc |-> "answer", user |-> u, data |-> data]]
    /\ UNCHANGED <<session, watcher, serial, out>>

\* From the return of query.answer() to the await of the reply: the
\* wallet check and the buy_<amount> or sell_all branch, with no await in
\* between.
task_body(t, payload, rpc) ==
    /\ CanHandle
    /\ tasks[t].pc = "answer"
    /\ LET u == tasks[t].user
           data == tasks[t].data
       IN IF ~HasWallet(u)
          THEN /\ out' = Out(data, u, <<"need_wallet">>, None, FALSE)
               /\ UNCHANGED <<positions, serial>>
          ELSE IF data \in BuyPresets
          THEN LET user_kp == user_wallets[u]
                   amount == float(token_arg(data)).val
                   current_price == lookup_price(u, payload)
                   result_dict == execute_buy_transaction(amount, user_kp, rpc)
               IN /\ Len(positions[u]) < MaxPositions
                  /\ positions' = buy_positions(u, amount, current_price, result_dict)
                  /\ serial' = IF result_dict.status = "error" THEN serial
                                ELSE [serial EXCEPT ![u] =
                                        @ \o <<new_position(u, amount, current_price,
                                                            result_dict)>>]
                  /\ out' = Out(data, u,
                                << IF result_dict.status = "error"
                                   THEN error_reply(result_dict)
                                   ELSE "purchase_executed" >>,
                                Transfer("buy", amount, user_kp), FALSE)
          ELSE LET user_kp == user_wallets[u]
                   current_pair == DictGet(user_pairs, u, "")
                   total_amount == sell_all_total(u, current_pair)
                   result_dict == execute_sell_transaction(total_amount, user_kp, rpc)
               IN IF total_amount = 0
                  THEN /\ out' = Out(data, u, <<"nothing_to_sell">>, None, FALSE)
                       /\ UNCHANGED <<positions, serial>>
                  ELSE /\ positions' = sell_all_positions(u, current_pair, result_dict)
                       /\ serial' = IF result_dict.status = "error" THEN serial
                                     ELSE [serial EXCEPT ![u] =
                                             SelectSeq(@, LAMBDA pos :
                                                            pos.pair # current_pair)]
                       /\ out' = Out(data, u,
                                     << IF result_dict.status = "error"
                                        THEN error_reply(result_dict)
                                        ELSE "sell_all_executed" >>,
                                     Transfer("sell", total_amount, user_kp), FALSE)
    /\ tasks' = [tasks EXCEPT ![t].pc = "reply"]
    /\ UNCHANGED <<user_wallets, user_pairs, price_alerts, user_data, watcher>>

\* The reply was sent: the handler returns.
task_end(t) ==
    /\ CanHandle
    /\ tasks[t].pc = "reply"
    /\ tasks' = [tasks EXCEPT ![t] = IdleTask]
    /\ UNCHANGED <<session, watcher, serial, out>>

handle_buy_sell_callback(u, data, payload, rpc) ==
    \/ buy_sell_no_wallet(u, data)
    \/ buy_sell_custom(u, data)
    \/ buy_preset(u, data, payload, rpc)
    \/ (data = "sell_all" /\ sell_all(u, rpc))
    \/ sell_preset(u, data, rpc)

\* ------------------------------------------------------------ free text
\* context.user_data.get(flag)
Awaiting(u, f) == user_data[u][f]

\* message_handler, awaiting_connectwallet.
message_connectwallet(u, text) ==
    /\ CanHandle
    /\ Awaiting(u, "awaiting_connectwallet")
    /\ user_data' = SetFlag(u, "awaiting_connectwallet", FALSE)
    /\ LET r == KeypairFromBase58(text)
           wallets == IF r.ok THEN DictSet(user_wallets, u, r.kp) ELSE user_wallets
       IN /\ user_wallets' = wallets
          /\ out' = Out("message_connectwallet", u,
                        << IF r.ok THEN "wallet_connected" ELSE "error_connecting",
                           start_reply(wallets, u) >>, None, FALSE)
    /\ UNCHANGED <<user_pairs, price_alerts, positions, watcher, inflight>>

\* message_setpair taking the text whether or not a wallet key is awaited.
message_setpair_unordered(u, text) ==
    /\ CanHandle
    /\ Awaiting(u, "awaiting_setpair")
    /\ user_data' = SetFlag(u, "awaiting_setpair", FALSE)
    /\ user_pairs' = DictSet(user_pairs, u, text)
    /\ out' = Out("message_setpair", u, <<"pair_set", start_reply(user_wallets, u)>>,
                  None, FALSE)
    /\ UNCHANGED <<user_wallets, price_alerts, positions, watcher, inflight>>

\* message_handler, awaiting_setpair.
message_setpair(u, text) ==
    /\ CanHandle
    /\ ~Awaiting(u, "awaiting_connectwallet")
    /\ Awaiting(u, "awaiting_setpair")
    /\ user_data' = SetFlag(u, "awaiting_setpair", FALSE)
    /\ user_pairs' = DictSet(user_pairs, u, text)
    /\ out' = Out("message_setpair", u, <<"pair_set", start_reply(user_wallets, u)>>,
                  None, FALSE)
    /\ UNCHANGED <<user_wallets, price_alerts, positions, watcher, inflight>>

\* message_handler, awaiting_alert.
message_alert(u, text) ==
    /\ CanHandle
    /\ ~Awaiting(u, "awaiting_connectwallet")
    /\ ~Awaiting(u, "awaiting_setpair")
    /\ Awaiting(u, "awaiting_alert")
    /\ user_data' = SetFlag(u, "awaiting_alert", FALSE)
    /\ LET r == float(text)
       IN IF r.ok
          THEN /\ price_alerts' = SetAlert(u, r.val)
               /\ out' = Out("message_alert", u, <<"alert_set">>, None, FALSE)
          ELSE /\ out' = Out("message_alert", u, <<"invalid_price">>, None, FALSE)
               /\ UNCHANGED price_alerts
    /\ UNCHANGED <<user_wallets, user_pairs, positions, watcher, inflight>>

\* message_handler, awaiting_buy_custom.  user_wallets[user_id] raises
\* KeyError for a user without a wallet, before the transfer is built.
message_buy_custom(u, text, payload, rpc) ==
    /\ CanHandle
    /\ ~Awaiting(u, "awaiting_connectwallet")
    /\ ~Awaiting(u, "awaiting_setpair")
    /\ ~Awaiting(u, "awaiting_alert")
    /\ Awaiting(u, "awaiting_buy_custom")
    /\ Len(positions[u]) < MaxPositions
    /\ user_data' = SetFlag(u, "awaiting_buy_custom", FALSE)
    /\ LET r == float(text)
       IN IF ~r.ok
          THEN /\ out' = Out("message_buy_custom", u, <<"invalid_amount">>, None, FALSE)
               /\ UNCHANGED positions
          ELSE IF ~HasWallet(u)
          THEN /\ out' = Out("message_buy_custom", u, <<>>, None, TRUE)
               /\ UNCHANGED positions
          ELSE LET amount == r.val
                   current_price == lookup_price(u, payload)
                   result_dict == execute_buy_transaction(amount, user_wallets[u], rpc)
               IN /\ positions' = buy_positions(u, amount, current_price, result_dict)
                  /\ out' = Out("message_buy_custom", u,
                                << IF result_dict.status = "error"
                                   THEN error_reply(result_dict)
                                   ELSE "purchase_executed" >>,
                                Transfer("buy", amount, user_wallets[u]), FALSE)
    /\ UNCHANGED <<user_wallets, user_pairs, price_alerts, watcher, inflight>>

\* message_handler, awaiting_sell_custom.
message_sell_custom(u, text, rpc) ==
    /\ CanHandle
    /\ ~Awaiting(u, "awaiting_connectwallet")
    /\ ~Awaiting(u, "awaiting_setpair")
    /\ ~Awaiting(u, "awaiting_alert")
    /\ ~Awaiting(u, "awaiting_buy_custom")
    /\ Awaiting(u, "awaiting_sell_custom")
    /\ user_data' = SetFlag(u, "awaiting_sell_custom", FALSE)
    /\ LET r == float(text)
       IN IF ~r.ok
          THEN out' = Out("message_sell_custom", u, <<"invalid_amount">>, None, FALSE)
          ELSE IF ~HasWallet(u)
          THEN out' = Out("message_sell_custom", u, <<>>, None, TRUE)
          ELSE LET amount == r.val
                   result_dict == execute_sell_transaction(amount, user_wallets[u], rpc)
               IN out' = Out("message_sell_custom", u,
                             << IF result_dict.status = "error"
                                THEN error_reply(result_dict) ELSE "sale_executed" >>,
                             Transfer("sell", amount, user_wallets[u]), FALSE)
    /\ UNCHANGED <<user_wallets, user_pairs, price_alerts, positions, watcher, inflight>>

\* message_handler with no flag set: falls off the end.
message_idle(u, text) ==
    /\ CanHandle
    /\ \A f \in Flags : ~Awaiting(u, f)
    /\ out' = Out("message_idle", u, <<>>, None, FALSE)
    /\ UNCHANGED <<session, watcher, inflight>>

message_handler(u, text, payload, rpc) ==
    \/ message_connectwallet(u, text)
    \/ message_setpair(u, text)
    \/ message_alert(u, text)
    \/ message_buy_custom(u, text, payload, rpc)
    \/ message_sell_custom(u, text, rpc)
    \/ message_idle(u, text)

\* ------------------------------------------------------------ price_watcher
\* One run of the job: w_items is list(price_alerts.items()), w_idx the
\* entry the for loop is at.
watcher_begin ==
    /\ w_pc = "idle"
    /\ cycles < MaxCycles
    /\ w_items' = price_alerts
    /\ w_idx' = 1
    /\ w_pc' = "loop"
    /\ cycles' = cycles + 1
    /\ out' = Out("price_watcher_start", 0, <<>>, None, FALSE)
    /\ UNCHANGED <<session, notified, inflight>>

watcher_start == watcher_begin /\ UNCHANGED w_pairs

\* watcher_start with the history variable recorded.
watcher_start_observed == watcher_begin /\ w_pairs' = user_pairs

\* if price and price >= threshold
should_notify(price, threshold) ==
    /\ ~IsNone(price)
    /\ Val(price) # 0
    /\ Val(price) >= threshold

\* One iteration of the loop, up to the await of send_message.
watcher_step(payload) ==
    /\ w_pc = "loop"
    /\ w_idx <= Len(w_items)
    /\ LET user_id == w_items[w_idx][1]
           threshold == w_items[w_idx][2]
       IN IF ~HasPair(user_id)
          THEN /\ out' = Out("price_watcher", user_id, <<>>, None, FALSE)
               /\ w_idx' = w_idx + 1
               /\ UNCHANGED <<w_pc, notified>>
          ELSE LET pair_id == user_pairs[user_id]
                   info == get_dexscreener_info(payload)
                   price == DictGet(info, "price", None)
                   ev == Some([pair |-> pair_id, threshold |-> threshold, price |-> price])
               IN IF should_notify(price, threshold)
                  THEN /\ out' = [Out("price_watcher", user_id, <<"alert">>, None, FALSE)
                                    EXCEPT !.eval = ev]
                       /\ notified' = [notified EXCEPT ![user_id] = @ + 1]
                       /\ w_pc' = "sending"
                       /\ UNCHANGED w_idx
                  ELSE /\ out' = [Out("price_watcher", user_id, <<>>, None, FALSE)
                                    EXCEPT !.eval = ev]
                       /\ w_idx' = w_idx + 1
                       /\ UNCHANGED <<w_pc, notified>>
    /\ UNCHANGED <<session, w_items, w_pairs, cycles, inflight>>

\* send_message returned or raised (the exception is logged): next entry.
watcher_sent ==
    /\ w_pc = "sending"
    /\ w_pc' = "loop"
    /\ w_idx' = w_idx + 1
    /\ UNCHANGED <<session, w_items, w_pairs, cycles, notified, inflight, out>>

\* The for loop is exhausted: the job returns.
watcher_end ==
    /\ w_pc = "loop"
    /\ w_idx > Len(w_items)
    /\ w_pc' = "idle"
    /\ w_items' = <<>>
    /\ w_pairs' = EmptyDict
    /\ w_idx' = 1
    /\ UNCHANGED <<session, cycles, notified, inflight, out>>

price_watcher(payload) ==
    \/ watcher_start
    \/ watcher_step(payload)
    \/ watcher_sent
    \/ watcher_end

\* price_watcher with the history variable recorded.
price_watcher_observed(payload) ==
    \/ watcher_start_observed
    \/ watcher_step(payload)
    \/ watcher_sent
    \/ watcher_end

\* ------------------------------------------------------------ next state
\* The argument lists of a command: none, or one of the texts T.
Args(T) == {<<>>} \cup {<<t>> : t \in T}

BuySellTokens == BuyPresets \cup SellPresets \cup {"buy_custom", "sell_custom", "sell_all"}

\* Every update the dispatcher of main() can deliver, and the job.
Next ==
    \/ \E u \in Users : start_command(u)
    \/ \E u \in Users, args \in Args(Texts) : connectwallet_command(u, args)
    \/ \E u \in Users, args \in Args(Texts) : setpair_command(u, args)
    \/ \E u \in Users, payload \in Payloads : price_command(u, payload)
    \/ \E u \in Users : balance_command(u)
    \/ \E u \in Users, payload \in Payloads : positions_command(u, payload)
    \/ \E u \in Users, args \in Args(Texts) : alert_command(u, args)
    \/ \E u \in Users : buy_command(u)
    \/ \E u \in Users : sell_command(u)
    \/ \E u \in Users, data \in MenuPrompts : handle_main_menu_prompt(u, data)
    \/ \E u \in Users, data \in MenuViews, payload \in Payloads :
          handle_main_menu_view(u, data, payload)
    \/ \E u \in Users, data \in BuySellTokens, payload \in Payloads, rpc \in RpcOutcomes :
          handle_buy_sell_callback(u, data, payload, rpc)
    \/ \E u \in Users, text \in Texts, payload \in Payloads, rpc \in RpcOutcomes :
          message_handler(u, text, payload, rpc)
    \/ \E payload \in Payloads : price_watcher(payload)

Spec == Init /\ [][Next]_vars

(***************************************************************************)
(* The specifications the properties are checked under take the same       *)
(* actions with the inputs cut down to what their properties are about     *)
(* (their next-state relations are sub-relations of Next).                 *)
(***************************************************************************)

\* The conversation of one user: wallet, prompts and free text.  The
\* backend rejects every transfer, so no position list grows here.
ConvTexts == {"k1", "k2", "10", "abc"}
ConvPayloads == {[kind |-> "exception", pairs |-> <<>>]}
ConvRpc == {"rpc error"}

NextConv ==
    \/ start_command(1)
    \/ \E args \in Args({"k1", "k2", "abc"}) : connectwallet_command(1, args)
    \/ \E args \in Args({"10"}) : setpair_command(1, args)
    \/ \E args \in Args({"10", "abc"}) : alert_command(1, args)
    \/ \E data \in MenuPrompts : handle_main_menu_prompt(1, data)
    \/ \E data \in BuySellTokens : buy_sell_no_wallet(1, data)
    \/ \E data \in {"buy_custom", "sell_custom"} : buy_sell_custom(1, data)
    \/ \E text \in ConvTexts : message_connectwallet(1, text)
    \/ \E text \in ConvTexts : message_setpair(1, text)
    \/ \E text \in ConvTexts : message_alert(1, text)
    \/ \E text \in ConvTexts, payload \in ConvPayloads, rpc \in ConvRpc :
          message_buy_custom(1, text, payload, rpc)
    \/ \E text \in ConvTexts, rpc \in ConvRpc : message_sell_custom(1, text, rpc)
    \/ \E text \in ConvTexts : message_idle(1, text)

SpecConv == Init /\ [][NextConv]_vars

\* The trades of one user: buy, sell, sell all and the PnL report.
TradeTexts == {"2", "abc"}
BuyPayloads ==
    { [kind |-> "json", pairs |-> << [priceUsd |-> None] >>],
      [kind |-> "json", pairs |-> << [priceUsd |-> Some("9")] >>] }

NextTrade ==
    \/ connectwallet_command(1, <<"k1">>)
    \/ \E t \in PairTexts : setpair_command(1, <<t>>)
    \/ \E data \in BuySellTokens : buy_sell_no_wallet(1, data)
    \/ \E data \in {"buy_custom", "sell_custom"} : buy_sell_custom(1, data)
    \/ \E data \in BuyPresets, payload \in BuyPayloads, rpc \in RpcOutcomes :
          buy_preset(1, data, payload, rpc)
    \/ \E rpc \in RpcOutcomes : sell_all(1, rpc)
    \/ \E data \in SellPresets, rpc \in RpcOutcomes : sell_preset(1, data, rpc)
    \/ \E text \in TradeTexts, payload \in BuyPayloads, rpc \in RpcOutcomes :
          message_buy_custom(1, text, payload, rpc)
    \/ \E text \in TradeTexts, rpc \in RpcOutcomes : message_sell_custom(1, text, rpc)
    \/ \E payload \in Payloads : positions_command(1, payload)

SpecTrade == Init /\ [][NextTrade]_vars

\* The alerts of two users: pair, threshold, /price and the job.
AlertTexts == {"0", "10", "abc"}

NextAlerts ==
    \/ \E u \in Users, t \in PairTexts : setpair_command(u, <<t>>)
    \/ \E u \in Users, args \in Args(AlertTexts) : alert_command(u, args)
    \/ \E u \in Users, payload \in Payloads : price_command(u, payload)
    \/ \E payload \in Payloads : price_watcher(payload)

SpecAlerts == Init /\ [][NextAlerts]_vars

\* One user typing custom amounts, the amount 0 among them.
ZeroTexts == {"0", "2"}
ZeroPayloads ==
    { [kind |-> "ok", pairs |-> <<[priceUsd |-> Some("9")]>>] }
ZeroRpc == {"ok", "rpc error"}

NextZero ==
    \/ connectwallet_command(1, <<"k1">>)
    \/ \E text \in PairTexts : setpair_command(1, <<text>>)
    \/ \E data \in {"buy_custom", "sell_all"} : buy_sell_no_wallet(1, data)
    \/ \E data \in {"buy_custom", "sell_custom"} : buy_sell_custom(1, data)
    \/ \E text \in ZeroTexts, payload \in ZeroPayloads, rpc \in ZeroRpc :
          message_buy_custom(1, text, payload, rpc)
    \/ \E text \in ZeroTexts, rpc \in ZeroRpc : message_sell_custom(1, text, rpc)
    \/ \E rpc \in ZeroRpc : sell_all(1, rpc)

SpecZero == Init /\ [][NextZero]_vars

\* Two users choosing pairs and thresholds while the cycles of
\* price_watcher are observed against the pairs at their start.
SnapshotPayloads ==
    { [kind |-> "ok", pairs |-> <<[priceUsd |-> Some("9")]>>],
      [kind |-> "ok", pairs |-> <<[priceUsd |-> Some("11")]>>] }

NextSnapshot ==
    \/ \E u \in Users, text \in PairTexts : setpair_command(u, <<text>>)
    \/ \E u \in Users, text \in {"9", "10"} : alert_command(u, <<text>>)
    \/ \E payload \in SnapshotPayloads : price_watcher_observed(payload)

SpecSnapshot == Init /\ [][NextSnapshot]_vars

\* One user setting and changing a pair and a threshold, by command and
\* by prompt, while price_watcher runs.
ThresholdTexts == {"Y", "10", "abc"}
ThresholdPayloads ==
    { [kind |-> "ok", pairs |-> <<[priceUsd |-> Some("9")]>>],
      [kind |-> "ok", pairs |-> <<[priceUsd |-> Some("11")]>>] }

NextThreshold ==
    \/ \E text \in PairTexts : setpair_command(1, <<text>>)
    \/ \E text \in {"9", "10", "abc"} : alert_command(1, <<text>>)
    \/ \E data \in {"menu_setpair", "menu_alert"} : handle_main_menu_prompt(1, data)
    \/ \E text \in ThresholdTexts : message_setpair(1, text)
    \/ \E text \in ThresholdTexts : message_alert(1, text)
    \/ \E payload \in ThresholdPayloads : price_watcher(payload)

SpecThreshold == Init /\ [][NextThreshold]_vars

\* One user whose buy_1 and sell_all presses are handled as tasks that
\* interleave at their awaits, with the cycles of price_watcher.
TaskPayloads ==
    { [kind |-> "ok", pairs |-> <<[priceUsd |-> Some("11")]>>] }
TaskRpc == {"ok", "rpc error"}

NextTasks ==
    \/ connectwallet_command(1, <<"k1">>)
    \/ \E text \in PairTexts : setpair_command(1, <<text>>)
    \/ alert_command(1, <<"10">>)
    \/ \E t \in Tasks, data \in TaskOps : task_begin(t, 1, data)
    \/ \E t \in Tasks, payload \in TaskPayloads, rpc \in TaskRpc :
          task_body(t, payload, rpc)
    \/ \E t \in Tasks : task_end(t)
    \/ \E payload \in TaskPayloads : price_watcher(payload)

SpecTasks == Init /\ [][NextTasks]_vars

(***************************************************************************)
(* Properties.                                                             *)
(***************************************************************************)
\* Sum of the amounts of a sequence of positions, by index.
RECURSIVE AmountUpTo(_, _)
AmountUpTo(xs, n) == IF n = 0 THEN 0 ELSE xs[n].amount + AmountUpTo(xs, n - 1)

PendingPrompts(u) == {f \in Flags : user_data[u][f]}

\* The last event handed a transfer to the backend and the backend
\* answered with an error.
TransferFailed(o) ==
    /\ ~IsNone(o.transfer)
    /\ o.replies # <<>>
    /\ o.replies[1] \in {"error_insufficient", "error_error"}

SellAllSucceeded(o) == o.op = "sell_all" /\ o.replies = <<"sell_all_executed">>

\* C1: in every reachable state every user has at most one pending-prompt
\* flag set (one conversation mode at a time).
C1_AtMostOnePrompt == \A u \in Users : Cardinality(PendingPrompts(u)) <= 1

\* C2: a step whose transfer the backend answered with an error (failed
\* buy by button or by typed amount, failed sell, failed sell all) leaves
\* every position list exactly as it was.
C2_FailedTransferKeepsPositions ==
    [][TransferFailed(out') => positions' = positions]_vars

\* C2 witness: a typed buy amount was submitted and failed while the user
\* already held a position.
C2_Witness ==
    /\ out.op = "message_buy_custom"
    /\ TransferFailed(out)
    /\ Len(positions[1]) = 1

\* C3: a successful sell all submits the sum of the amounts of the positions
\* of the current pair, removes exactly those positions and keeps every
\* other position, in order and unchanged.
C3_SellAllSellsCurrentPair ==
    [][SellAllSucceeded(out') =>
         LET u == out'.user
             current_pair == DictGet(user_pairs, u, "")
             sold == SelectSeq(positions[u], LAMBDA pos : pos.pair = current_pair)
             kept == SelectSeq(positions[u], LAMBDA pos : pos.pair # current_pair)
         IN /\ Val(out'.transfer).amount = AmountUpTo(sold, Len(sold))
            /\ positions'[u] = kept
            /\ \A v \in Users \ {u} : positions'[v] = positions[v]]_vars

\* C3 witness: sell all sold two positions (1 + 2) of the current pair and
\* a position of another pair is still in the list.
C3_Witness ==
    /\ SellAllSucceeded(out)
    /\ Val(out.transfer).amount = 3
    /\ Len(positions[1]) = 1
    /\ positions[1][1].pair # DictGet(user_pairs, 1, "")

\* The oracle gave no usable price: the request failed, the body has no
\* pairs, the first pair has no priceUsd, or priceUsd is no number.
EmptyResult(payload) ==
    \/ payload.kind = "exception"
    \/ payload.pairs = <<>>
    \/ IsNone(payload.pairs[1].priceUsd)
    \/ Val(payload.pairs[1].priceUsd) = "abc"

\* The prices the oracle payloads carry.
OraclePrices == {0, 9, 11}

RECURSIVE SumUpTo(_, _)
SumUpTo(xs, n) == IF n = 0 THEN 0 ELSE xs[n] + SumUpTo(xs, n - 1)

\* C4: an evaluation of a subscription whose fetched price is at or above
\* the threshold sends a notification in every cycle, whether or not the
\* user was notified before, and leaves price_alerts as it was.
C4_RefiresEveryCycle ==
    [][(/\ w_pc = "loop"
        /\ w_idx <= Len(w_items)
        /\ out'.op = "price_watcher"
        /\ ~IsNone(out'.eval)
        /\ ~IsNone(Val(out'.eval).price)
        /\ Val(Val(out'.eval).price) >= Val(out'.eval).threshold)
       => /\ notified'[out'.user] = notified[out'.user] + 1
          /\ price_alerts' = price_alerts]_vars

\* C5: price_watcher notifies a user with a pair and a threshold exactly
\* when the price is available and price >= threshold, and never notifies
\* a user it skipped for want of a pair.
C5_NotifiedIffAtOrAbove ==
    out.op = "price_watcher" =>
       IF IsNone(out.eval)
       THEN out.replies = <<>>
       ELSE LET ev == Val(out.eval)
            IN (out.replies = <<"alert">>)
                 <=> (~IsNone(ev.price) /\ Val(ev.price) >= ev.threshold)

\* C6: a positions report has one PnL line per position of the current
\* pair, in order, each (price - purchase_price) * amount for one and the
\* same price, and its total is the sum of the lines.
C6_PnlReport ==
    (out.op = "positions" /\ out.replies = <<"positions_report">>) =>
       LET u == out.user
           matching == SelectSeq(positions[u], LAMBDA pos : pos.pair = user_pairs[u])
       IN /\ Len(out.pnl) = Len(matching)
          /\ Len(matching) > 0
          /\ \E price \in OraclePrices :
                \A i \in 1..Len(matching) :
                   out.pnl[i] = (price - Val(matching[i].purchase_price))
                                   * matching[i].amount
          /\ out.total = Some(SumUpTo(out.pnl, Len(out.pnl)))

\* C6 witness: a report of two lines, one of them (11 - 9) * 2 = 4, for a
\* user who also holds a position of another pair.
C6_Witness ==
    /\ out.op = "positions"
    /\ out.replies = <<"positions_report">>
    /\ Len(out.pnl) = 2
    /\ \E i \in 1..2 : out.pnl[i] = 4
    /\ Len(positions[out.user]) = 3

\* C7: a connect with a valid key, by command or by free text, binds the
\* user to exactly that key whatever was bound before, and touches nothing
\* else of the dictionaries; when that key was already bound the
\* dictionaries stay as they were.
C7_ConnectOverwrites ==
    [][\A u \in Users, k \in KeyTexts :
          (connectwallet_command(u, <<k>>) \/ message_connectwallet(u, k)) =>
             /\ DOMAIN user_wallets' = DOMAIN user_wallets \cup {u}
             /\ user_wallets'[u].secret = k
             /\ \A v \in DOMAIN user_wallets \ {u} : user_wallets'[v] = user_wallets[v]
             /\ UNCHANGED <<user_pairs, price_alerts, positions>>
             /\ (HasWallet(u) /\ user_wallets[u].secret = k)
                   => UNCHANGED user_wallets]_vars

\* C7 witness: the user is bound to k2 right after a free-text connect.
C7_Witness ==
    /\ out.op = "message_connectwallet"
    /\ out.replies[1] = "wallet_connected"
    /\ out.user \in DOMAIN user_wallets
    /\ user_wallets[out.user].secret = "k2"

\* C8: /price for a user with a pair, when the oracle gives no usable
\* price, replies "could not retrieve", raises nothing and changes no
\* session state.
C8_PriceUnavailable ==
    [][\A u \in Users, payload \in Payloads :
          (price_command(u, payload) /\ HasPair(u) /\ EmptyResult(payload)) =>
             /\ out'.replies = <<"could_not_retrieve">>
             /\ ~out'.raised
             /\ UNCHANGED session]_vars

\* C8 witness: the last event was such a /price.
C8_Witness ==
    /\ out.op = "price"
    /\ out.replies = <<"could_not_retrieve">>
    /\ HasPair(out.user)

\* C9: positions_command for a user with a pair and a matching position,
\* when the oracle gives no price, ends with a reply and without an
\* exception.
C9_NoPriceReported ==
    [][\A u \in Users, payload \in Payloads :
          (/\ positions_command(u, payload)
           /\ HasPair(u)
           /\ MatchingPositions(positions[u], user_pairs[u]) # <<>>
           /\ EmptyResult(payload)) =>
             /\ ~out'.raised
             /\ out'.replies # <<>>
             /\ out'.pnl = <<>>]_vars

\* C10: an event of a user who has no wallet hands no transfer to the
\* backend and changes no position list.
C10_NoTransferWithoutWallet ==
    [][(out'.user \in Users /\ ~HasWallet(out'.user)) =>
          /\ IsNone(out'.transfer)
          /\ positions' = positions]_vars

\* C10 witness: sell all was pressed by a user without a wallet and was
\* answered with the request to connect one.
C10_Witness ==
    /\ out.op = "sell_all"
    /\ out.replies = <<"need_wallet">>
    /\ ~HasWallet(out.user)

\* C11: sell all for a user whose positions of the current pair sum to
\* zero replies "nothing to sell", hands no transfer to the backend and
\* leaves the position list as it was.
C11_NothingToSell ==
    [][\A u \in Users, rpc \in RpcOutcomes :
          LET current_pair == IF u \in DOMAIN user_pairs THEN user_pairs[u] ELSE ""
              matching == SelectSeq(positions[u], LAMBDA pos : pos.pair = current_pair)
          IN (sell_all(u, rpc) /\ AmountUpTo(matching, Len(matching)) = 0) =>
                /\ out'.replies = <<"nothing_to_sell">>
                /\ IsNone(out'.transfer)
                /\ positions' = positions]_vars

\* C11 witness: "nothing to sell" was the answer for a user who holds a
\* position of amount 0 in the current pair and a position of amount 2 in
\* another pair.
C11_Witness ==
    /\ out.op = "sell_all"
    /\ out.replies = <<"nothing_to_sell">>
    /\ out.user \in DOMAIN user_pairs
    /\ \E i, j \in 1..Len(positions[out.user]) :
          /\ positions[out.user][i].pair = user_pairs[out.user]
          /\ positions[out.user][i].amount = 0
          /\ positions[out.user][j].pair # user_pairs[out.user]
          /\ positions[out.user][j].amount = 2

\* C15: a sale of a given amount, by sell_<amount> button or by typed
\* amount, leaves every position list as it was, whether the transfer
\* succeeds or fails.
C15_SellKeepsPositions ==
    [][out'.op \in SellPresets \cup {"message_sell_custom"} =>
          positions' = positions]_vars

\* C15 witness: a sell_10 sale was executed for a user who holds positions.
C15_Witness ==
    /\ out.op = "sell_10"
    /\ out.replies = <<"sale_executed">>
    /\ positions[out.user] # <<>>

\* C16: no position carries a null purchase price.
C16_NumericPurchasePrice ==
    \A u \in Users : \A i \in 1..Len(positions[u]) :
       ~IsNone(positions[u][i].purchase_price)

\* C17: every position of every user has an amount above zero.
C17_PositiveAmounts ==
    \A u \in Users : \A i \in 1..Len(positions[u]) : positions[u][i].amount > 0

\* C18: while a cycle of price_watcher is in progress, each evaluation it
\* has just made priced the pair its user had when the cycle started and
\* compared the threshold the user had then.
C18_CycleUsesSnapshot ==
    (w_pc # "idle" /\ out.op = "price_watcher" /\ ~IsNone(out.eval)) =>
       /\ out.user \in DOMAIN w_pairs
       /\ Val(out.eval).pair = w_pairs[out.user]
       /\ \E i \in 1..Len(w_items) :
             w_items[i] = <<out.user, Val(out.eval).threshold>>

\* C19: however the buy and sell all handlers of a user interleave at
\* their awaits, with each other and with the cycles of price_watcher,
\* the user's position list is the one a one-at-a-time execution of their
\* bodies gives: no appended position is lost, no removed one comes back.
C19_Serialisable == \A u \in Users : positions[u] = serial[u]

\* C19 witness: a buy and a sell all are both in flight at their reply
\* while price_watcher awaits a send, the sell all succeeded and a
\* position of another pair is left.
C19_Witness ==
    /\ w_pc = "sending"
    /\ \E t1, t2 \in Tasks :
          /\ tasks[t1] = [pc |-> "reply", user |-> 1, data |-> "buy_1"]
          /\ tasks[t2] = [pc |-> "reply", user |-> 1, data |-> "sell_all"]
    /\ out.replies = <<"sell_all_executed">>
    /\ positions[1] # <<>>

\* The elements of xs at the indices in keep, in the order of xs.
RECURSIVE KeptUpTo(_, _, _)
KeptUpTo(xs, keep, n) ==
    IF n = 0 THEN <<>>
    ELSE IF n \in keep THEN Append(KeptUpTo(xs, keep, n - 1), xs[n])
    ELSE KeptUpTo(xs, keep, n - 1)

BuySucceeded(o) ==
    /\ o.op \in BuyPresets \cup {"message_buy_custom"}
    /\ o.replies = <<"purchase_executed">>

\* C20: a position list changes only by one position appended at its end
\* by a successful buy of that user, or by positions removed by a
\* successful sell all of that user, the remaining ones unchanged and in
\* their order; setpair changes no position.
C20_AppendOrRemoveOnly ==
    [][/\ out'.op = "setpair" => positions' = positions
       /\ \A u \in Users :
             positions'[u] # positions[u] =>
                   \/ /\ BuySucceeded(out')
                      /\ out'.user = u
                      /\ Len(positions'[u]) = Len(positions[u]) + 1
                      /\ SubSeq(positions'[u], 1, Len(positions[u])) = positions[u]
                   \/ /\ SellAllSucceeded(out')
                      /\ out'.user = u
                      /\ \E keep \in SUBSET (1..Len(positions[u])) :
                            positions'[u] = KeptUpTo(positions[u], keep, Len(positions[u]))]_vars

\* C20 witness: right after a successful buy the user holds a position of
\* pair X followed by one of pair Y.
C20_Witness ==
    /\ BuySucceeded(out)
    /\ Len(positions[out.user]) >= 2
    /\ positions[out.user][1].pair = "X"
    /\ positions[out.user][Len(positions[out.user])].pair = "Y"

\* Texts that are no number, and texts that are no key.
NonNumeric == Texts \ NumberTexts
NonKeys == Texts \ KeyTexts

\* C12: a free-text message handled for a user with a pending prompt
\* leaves that user with no pending prompt at all.
C12_FreeTextLeavesIdle ==
    [][\A u \in Users, text \in Texts, payload \in Payloads, rpc \in RpcOutcomes :
          (PendingPrompts(u) # {} /\ message_handler(u, text, payload, rpc)) =>
             \A f \in Flags : ~user_data'[u][f]]_vars

\* C13: a malformed input (a text that is no key given as a key, a text
\* that is no number given as an alert price or an amount), as a command
\* argument or as a free-text reply, changes no wallet, pair, threshold or
\* position and submits no transfer.
C13_MalformedInputNoEffect ==
    [][\A u \in Users :
          /\ \A t \in NonKeys :
                (connectwallet_command(u, <<t>>) \/ message_connectwallet(u, t)) =>
                   /\ UNCHANGED <<user_wallets, user_pairs, price_alerts, positions>>
                   /\ IsNone(out'.transfer)
          /\ \A t \in NonNumeric :
                (\/ alert_command(u, <<t>>)
                 \/ message_alert(u, t)
                 \/ \E payload \in Payloads, rpc \in RpcOutcomes :
                       message_buy_custom(u, t, payload, rpc)
                 \/ \E rpc \in RpcOutcomes : message_sell_custom(u, t, rpc)) =>
                   /\ UNCHANGED <<user_wallets, user_pairs, price_alerts, positions>>
                   /\ IsNone(out'.transfer)]_vars

\* C13 witness: a typed buy amount that is no number was answered with
\* "invalid amount" for a user with a wallet.
C13_Witness ==
    /\ out.op = "message_buy_custom"
    /\ out.replies = <<"invalid_amount">>
    /\ HasWallet(out.user)

\* C14 as claimed: each of /connectwallet, /setpair and /alert, issued
\* without its argument, sets the matching awaiting flag.
C14_MissingArgumentPrompts ==
    [][\A u \in Users :
          /\ connectwallet_command(u, <<>>) => user_data'[u]["awaiting_connectwallet"]
          /\ setpair_command(u, <<>>) => user_data'[u]["awaiting_setpair"]
          /\ alert_command(u, <<>>) => user_data'[u]["awaiting_alert"]]_vars

\* C14 amended: /connectwallet without argument sets awaiting_connectwallet
\* and nothing else, and the next free text is then taken as the key;
\* /setpair and /alert without argument reply with their usage line and
\* leave the session, flags included, as it was.
C14_OnlyConnectWalletPrompts ==
    [][\A u \in Users :
          /\ connectwallet_command(u, <<>>) =>
                /\ user_data' = [user_data EXCEPT ![u]["awaiting_connectwallet"] = TRUE]
                /\ UNCHANGED <<user_wallets, user_pairs, price_alerts, positions>>
          /\ setpair_command(u, <<>>) =>
                (UNCHANGED session /\ out'.replies = <<"usage_setpair">>)
          /\ alert_command(u, <<>>) =>
                (UNCHANGED session /\ out'.replies = <<"usage_alert">>)
          /\ user_data[u]["awaiting_connectwallet"] =>
                \A text \in Texts, payload \in Payloads, rpc \in RpcOutcomes :
                   message_handler(u, text, payload, rpc) =>
                      /\ out'.op = "message_connectwallet"
                      /\ text \in KeyTexts => user_wallets'[u].secret = text]_vars

\* C14 witness: /connectwallet without argument was just answered and the
\* flag is set.
C14_Witness ==
    /\ out.op = "connectwallet"
    /\ out.replies = <<"ask_key">>
    /\ user_data[out.user]["awaiting_connectwallet"]


\* C21: a user whose awaiting_buy_custom or awaiting_sell_custom flag is
\* set has a wallet, no step removes or leaves out a wallet that was bound,
\* and the typed-amount paths never raise for want of a wallet.
C21_CustomPromptHasWallet ==
    [][/\ \A u \in Users :
             /\ HasWallet(u) => u \in DOMAIN user_wallets'
             /\ (user_data'[u]["awaiting_buy_custom"]
                   \/ user_data'[u]["awaiting_sell_custom"])
                   => u \in DOMAIN user_wallets'
       /\ out'.op \in {"message_buy_custom", "message_sell_custom"} => ~out'.raised]_vars

\* C21 witness: a typed buy amount was just submitted to the backend for a
\* user whose sell prompt is still pending.
C21_Witness ==
    /\ out.op = "message_buy_custom"
    /\ ~IsNone(out.transfer)
    /\ user_data[out.user]["awaiting_sell_custom"]
    /\ HasWallet(out.user)

\* The flags in the order message_handler tests them, and the first one set.
FlagOrder ==
    << "awaiting_connectwallet", "awaiting_setpair", "awaiting_alert",
       "awaiting_buy_custom", "awaiting_sell_custom" >>

FirstPending(u) ==
    FlagOrder[CHOOSE i \in 1..Len(FlagOrder) :
                 /\ user_data[u][FlagOrder[i]]
                 /\ \A j \in 1..(i - 1) : ~user_data[u][FlagOrder[j]]]

\* C22: a free-text message of a user with pending prompts is taken by
\* the first set flag in the order wallet key, pair address, alert price,
\* buy amount, sell amount: that flag alone is cleared, the others stay,
\* and only the action of that flag is performed.
C22_FirstPromptOnly ==
    [][\A u \in Users :
          PendingPrompts(u) # {} =>
             \A text \in Texts, payload \in Payloads, rpc \in RpcOutcomes :
                message_handler(u, text, payload, rpc) =>
                   LET f == FirstPending(u)
                   IN /\ user_data' = [user_data EXCEPT ![u][f] = FALSE]
                      /\ out'.user = u
                      /\ out'.op = CASE f = "awaiting_connectwallet" -> "message_connectwallet"
                                     [] f = "awaiting_setpair" -> "message_setpair"
                                     [] f = "awaiting_alert" -> "message_alert"
                                     [] f = "awaiting_buy_custom" -> "message_buy_custom"
                                     [] f = "awaiting_sell_custom" -> "message_sell_custom"
                      /\ f # "awaiting_connectwallet" => UNCHANGED user_wallets
                      /\ f # "awaiting_setpair" => UNCHANGED user_pairs
                      /\ f # "awaiting_alert" => UNCHANGED price_alerts
                      /\ f # "awaiting_buy_custom" => UNCHANGED positions
                      /\ f \notin {"awaiting_buy_custom", "awaiting_sell_custom"}
                            => IsNone(out'.transfer)]_vars

\* C22 witness: a text was just taken as the pair address while the alert
\* prompt and the buy prompt stay pending.
C22_Witness ==
    /\ out.op = "message_setpair"
    /\ user_data[out.user]["awaiting_alert"]
    /\ user_data[out.user]["awaiting_buy_custom"]


\* C23: a threshold once set is never removed and changes only by a later
\* valid threshold of the same user; setting the pair leaves price_alerts
\* as it was; a cycle takes the thresholds as they are when it starts and
\* each of its evaluations compares the user's threshold so taken against
\* the price of the pair the user has selected at that moment.
C23_ThresholdKept ==
    [][/\ \A u \in Users :
             HasAlert(u) =>
                /\ \E i \in 1..Len(price_alerts') :
                      /\ price_alerts'[i][1] = u
                      /\ price_alerts'[i][2] # Threshold(u) =>
                            /\ out'.op \in {"alert", "message_alert"}
                            /\ out'.user = u
                            /\ out'.replies = <<"alert_set">>
       /\ out'.op \in {"setpair", "message_setpair"} => price_alerts' = price_alerts
       /\ (w_pc = "idle" /\ w_pc' = "loop") => w_items' = price_alerts
       /\ (w_pc = "loop" /\ w_idx <= Len(w_items)) =>
             LET user_id == w_items[w_idx][1]
             IN HasPair(user_id) =>
                   /\ out'.op = "price_watcher"
                   /\ out'.user = user_id
                   /\ ~IsNone(out'.eval)
                   /\ Val(out'.eval).pair = user_pairs[user_id]
                   /\ Val(out'.eval).threshold = w_items[w_idx][2]]_vars

\* C23 witness: in a second or later cycle the user was notified on pair
\* Y against threshold 10, having been notified before.
C23_Witness ==
    /\ out.op = "price_watcher"
    /\ out.replies = <<"alert">>
    /\ Val(out.eval).pair = "Y"
    /\ Val(out.eval).threshold = 10
    /\ cycles >= 2
    /\ notified[out.user] >= 2

====
